---- MODULE Spec2Model ----
(***************************************************************************)
(* Model of go-sio: the line-filtering StreamReader (s_reader.go), driven  *)
(* by a bufio.Scanner with the package's split function, reading from a    *)
(* byte source that ends with end-of-data or with an I/O error.            *)
(***************************************************************************)
EXTENDS Integers, Sequences, FiniteSets, TLC

\* ---------------------------------------------------------------- bounds
MaxInputLen == 4
MaxChunk == 2
MaxCloses == 2
MaxLater == 1
BigBuf == MaxInputLen + 1

\* ----------------------------------------------------------------- bytes
NL == 10
LowerA == 97
LowerB == 98
UpperA == 65
UpperB == 66
Alphabet == {NL, LowerA, LowerB}
Digit1 == 49
LBracket == 91
RBracket == 93
JSONAlphabet == {NL, Digit1, LBracket, RBracket}

Min(a, b) == IF a < b THEN a ELSE b

RECURSIVE SeqsUpTo(_)
SeqsUpTo(n) ==
  IF n = 0 THEN {<<>>}
  ELSE LET prev == SeqsUpTo(n - 1)
       IN prev \cup {Append(s, b) : s \in {t \in prev : Len(t) = n - 1}, b \in Alphabet}

Inputs == SeqsUpTo(MaxInputLen)

RECURSIVE SeqsOver(_, _)
SeqsOver(A, n) ==
  IF n = 0 THEN {<<>>}
  ELSE LET prev == SeqsOver(A, n - 1)
       IN prev \cup {Append(s, b) : s \in {t \in prev : Len(t) = n - 1}, b \in A}

JSONInputs == SeqsOver(JSONAlphabet, MaxInputLen)
DestSizes == {1, 2, BigBuf}
ChunkSizes == 1..MaxChunk

\* ---------------------------------------------------------------- errors
MkErr(kind) == [kind |-> kind, rec |-> <<>>]
NoErr == MkErr("nil")
EOF == MkErr("EOF")
SrcErr == MkErr("source")
ErrNilReader == MkErr("ErrNilReader")
NilFuncPanic == MkErr("panic")
NilDeref == MkErr("nil pointer dereference")
CloseErr == MkErr("close")
ErrShortWrite == MkErr("short write")
FilterErr(line) == [kind |-> "filter", rec |-> line]

VARIABLES
  input,      \* bytes the upstream source delivers before it ends
  srcEnd,     \* how the upstream source ends: EOF or SrcErr
  chunk,      \* number of bytes the upstream source returns per read
  rArg,       \* NewStreamReader's r: "nil" or "reader"
  fArg,       \* NewStreamReader's f: "nil" or a filter
  pc,         \* "new" before NewStreamReader, "ready" after, "panicked"
  sr,         \* the *StreamReader
  out,        \* concatenation of the bytes returned by Read so far
  fed,        \* the records passed to the filter so far, in order
  lastLen,    \* len(p) of the last Read, -1 before the first
  lastN,      \* n of the last Read
  lastErr,    \* err of the last Read
  lastFed,    \* number of records the last Read passed to the filter
  first,      \* the first non-nil error a Read returned, with the output and
              \* the number of records filtered up to that return
              \* and the number of Reads made after it, up to MaxLater
  twin,       \* a stream built with NopFilter, read in step with sr
  cArg,       \* NewReadCloser's c: "nil" or "closer"
  reader,     \* the mock reader a wrapper reads from: its position in input
  closer,     \* the mock closer a wrapper closes: closed, Close calls, its error
  writer,     \* the sink of a TeeReaderCloser
  rc,         \* the *ReadCloser
  trc,        \* the *TeeReaderCloser
  closeCalls, \* number of Close calls made on the wrapper
  lastClose   \* what the last Close on the wrapper returned

streamVars == <<input, srcEnd, chunk, rArg, fArg, pc, sr, out, fed, lastLen,
                lastN, lastErr, lastFed, first, twin>>
wrapVars == <<cArg, reader, closer, writer, rc, trc, closeCalls, lastClose>>
vars == <<streamVars, wrapVars>>

\* --------------------------------------------------------------- filters
Contains(s, b) == \E i \in 1..Len(s) : s[i] = b

ToUpper(s) ==
  [i \in 1..Len(s) |->
     IF s[i] = LowerA THEN UpperA ELSE IF s[i] = LowerB THEN UpperB ELSE s[i]]

FilterResult(o, e) == [out |-> o, err |-> e]

NopFilter(in) == FilterResult(in, NoErr)

\* the filter of TestStreamReader_Read_WithFilter, with "b" for "skip"
SkipUpperFilter(in) ==
  IF Contains(in, LowerB) THEN FilterResult(<<>>, NoErr)
  ELSE FilterResult(ToUpper(in), NoErr)

\* the filter of TestStreamReader_Read_FilterError, with "b" for "line2"
ErrorFilter(in) ==
  IF Contains(in, LowerB) THEN FilterResult(<<>>, FilterErr(in))
  ELSE FilterResult(in, NoErr)

\* BenchmarkStreamReader's dropFilter, with "a" for "keep"
DropFilter(in) ==
  IF Len(in) > 0 /\ in[1] = LowerA THEN FilterResult(in, NoErr)
  ELSE FilterResult(<<>>, NoErr)

TransformFilter(in) == FilterResult(ToUpper(in), NoErr)

DropAllFilter(in) == FilterResult(<<>>, NoErr)

\* json.Valid on texts over JSONAlphabet: a value is a number of digits 1 or
\* an array, empty or of one value, with white space around values
WhiteSpace == {NL, 32, 9, 13}

RECURSIVE SkipWS(_, _)
SkipWS(s, i) == IF i <= Len(s) /\ s[i] \in WhiteSpace THEN SkipWS(s, i + 1) ELSE i

RECURSIVE SkipDigits(_, _)
SkipDigits(s, i) == IF i <= Len(s) /\ s[i] = Digit1 THEN SkipDigits(s, i + 1) ELSE i

\* the index after the value that starts at i, 0 when there is none
RECURSIVE ParseValue(_, _)
ParseValue(s, i) ==
  LET j == SkipWS(s, i)
  IN IF j > Len(s) THEN 0
     ELSE IF s[j] = Digit1 THEN SkipDigits(s, j + 1)
     ELSE IF s[j] = LBracket
     THEN LET k == SkipWS(s, j + 1)
          IN IF k <= Len(s) /\ s[k] = RBracket THEN k + 1
             ELSE LET e == ParseValue(s, k)
                      m == SkipWS(s, e)
                  IN IF e # 0 /\ m <= Len(s) /\ s[m] = RBracket THEN m + 1 ELSE 0
     ELSE 0

JSONValid(s) ==
  LET e == ParseValue(s, 1)
  IN e # 0 /\ SkipWS(s, e) > Len(s)

\* a JSON filter that reports invalid records as errors
JSONFilterErrorsOnInvalid(in) ==
  IF JSONValid(in) THEN FilterResult(in, NoErr)
  ELSE FilterResult(<<>>, FilterErr(in))

\* the filter NewJSONFilterReadCloser builds
JSONFilter(in) ==
  IF JSONValid(in) THEN FilterResult(in, NoErr)
  ELSE FilterResult(<<>>, NoErr)

Filters == {"NopFilter", "SkipUpper", "Error", "Drop", "Transform", "DropAll"}
NeverErrs(f) == f \in Filters \ {"Error"}

\* sr.filter(string(lineBytes)); calling a nil func panics
CallFilter(f, in) ==
  CASE f = "NopFilter" -> NopFilter(in)
    [] f = "SkipUpper" -> SkipUpperFilter(in)
    [] f = "Error" -> ErrorFilter(in)
    [] f = "Drop" -> DropFilter(in)
    [] f = "Transform" -> TransformFilter(in)
    [] f = "DropAll" -> DropAllFilter(in)
    [] f = "JSON" -> JSONFilter(in)
    [] OTHER -> FilterResult(<<>>, NilFuncPanic)

\* ------------------------------------------------- mock reader and closer
\* mockReader / strings.Reader at the start of its data
NewMockReader == [pos |-> 0]

\* mockReader.Read: end of data once pos >= len(data), else copy what fits;
\* k caps what one Read returns, end is what the reader reports at its end
MockRead(rd, pLen, src, end, k) ==
  IF rd.pos >= Len(src)
  THEN [reader |-> rd, n |-> 0, err |-> end, data |-> <<>>]
  ELSE LET n == Min(Min(pLen, k), Len(src) - rd.pos)
       IN [reader |-> [rd EXCEPT !.pos = @ + n], n |-> n, err |-> NoErr,
           data |-> SubSeq(src, rd.pos + 1, rd.pos + n)]

\* mockCloser{err: e}
NewMockCloser(e) == [closed |-> FALSE, calls |-> 0, err |-> e]

\* mockCloser.Close: m.closed = true; return m.err
MockClose(c) ==
  [closer |-> [c EXCEPT !.closed = TRUE, !.calls = @ + 1], err |-> c.err]

\* ------------------------------------------------------- TeeReaderCloser
\* bytes.Buffer as the sink
NewBuffer == [buf |-> <<>>, room |-> -1, closed |-> FALSE]

\* a writer that takes room bytes and then fails with a short write
NewLimitedWriter(room) == [buf |-> <<>>, room |-> room, closed |-> FALSE]

SinkRooms == {2}

\* w.Write(p): bytes.Buffer takes everything; a limited writer takes what
\* fits and reports a short write
WriterWrite(w, data) ==
  IF w.room < 0 \/ Len(data) <= w.room - Len(w.buf)
  THEN [writer |-> [w EXCEPT !.buf = @ \o data], n |-> Len(data), err |-> NoErr]
  ELSE LET n == w.room - Len(w.buf)
       IN [writer |-> [w EXCEPT !.buf = @ \o SubSeq(data, 1, n)], n |-> n,
           err |-> ErrShortWrite]

NoTeeReaderCloser == [isNil |-> TRUE, reader |-> "nil", closer |-> "nil"]

\* a constructor that keeps r itself as the reader
NewTeeReaderCloserNoTee(r, w) == [isNil |-> FALSE, reader |-> "mock", closer |-> "mock"]

\* NewTeeReaderCloser(r, w): reader is io.TeeReader(r, w), closer is r
NewTeeReaderCloserValue(r, w) == [isNil |-> FALSE, reader |-> "tee", closer |-> "mock"]

\* io.TeeReader's Read after the source's Read gave m and, when m.n > 0, the
\* sink's Write gave wr
TeeResult(t, w, m, wr) ==
  IF t.reader = "tee" /\ m.n > 0
  THEN IF wr.err # NoErr
       THEN [reader |-> m.reader, writer |-> wr.writer, n |-> wr.n,
             err |-> wr.err, data |-> SubSeq(m.data, 1, wr.n)]
       ELSE [reader |-> m.reader, writer |-> wr.writer, n |-> m.n,
             err |-> m.err, data |-> m.data]
  ELSE [reader |-> m.reader, writer |-> w, n |-> m.n, err |-> m.err,
        data |-> m.data]

\* io.TeeReader's Read after the source's Read gave m
TeeAfterSourceRead(t, w, m) == TeeResult(t, w, m, WriterWrite(w, m.data))

\* a Read that forwards to the source and writes nothing
TeeReaderCloserReadNoWrite(t, rd, w, pLen, src, end, k) ==
  LET m == MockRead(rd, pLen, src, end, k)
  IN [reader |-> m.reader, writer |-> w, n |-> m.n, err |-> m.err, data |-> m.data]

\* t.reader.Read(p): io.TeeReader reads r and writes what it read to w; when
\* the write fails it returns the write's count and error
TeeReaderCloserRead(t, rd, w, pLen, src, end, k) ==
  TeeAfterSourceRead(t, w, MockRead(rd, pLen, src, end, k))

\* a Close that reports success whatever the source's Close returned
TeeReaderCloserCloseDropsError(t, c, w) ==
  [closer |-> MockClose(c).closer, writer |-> w, err |-> NoErr]

\* t.closer.Close()
TeeReaderCloserClose(t, c, w) ==
  LET m == MockClose(c)
  IN [closer |-> m.closer, writer |-> w, err |-> m.err]

\* --------------------------------------------------------------- scanner
IndexByte(data, b) ==
  IF Contains(data, b)
  THEN (CHOOSE i \in 1..Len(data) : data[i] = b /\ \A j \in 1..(i - 1) : data[j] # b) - 1
  ELSE -1

\* split as bufio.ScanLines cuts: the newline is not part of the token
splitDropsNewline(data, atEOF) ==
  IF atEOF /\ Len(data) = 0
  THEN [advance |-> 0, token |-> <<>>, hasToken |-> FALSE]
  ELSE LET i == IndexByte(data, NL)
       IN IF i >= 0
          THEN [advance |-> i + 1, token |-> SubSeq(data, 1, i), hasToken |-> TRUE]
          ELSE IF atEOF
               THEN [advance |-> Len(data), token |-> data, hasToken |-> TRUE]
               ELSE [advance |-> 0, token |-> <<>>, hasToken |-> FALSE]

\* split that discards the unterminated rest at end of input
splitDropsUnterminated(data, atEOF) ==
  IF atEOF /\ Len(data) = 0
  THEN [advance |-> 0, token |-> <<>>, hasToken |-> FALSE]
  ELSE LET i == IndexByte(data, NL)
       IN IF i >= 0
          THEN [advance |-> i + 1, token |-> SubSeq(data, 1, i + 1), hasToken |-> TRUE]
          ELSE IF atEOF
               THEN [advance |-> Len(data), token |-> <<>>, hasToken |-> FALSE]
               ELSE [advance |-> 0, token |-> <<>>, hasToken |-> FALSE]

split(data, atEOF) ==
  IF atEOF /\ Len(data) = 0
  THEN [advance |-> 0, token |-> <<>>, hasToken |-> FALSE]
  ELSE LET i == IndexByte(data, NL)
       IN IF i >= 0
          THEN [advance |-> i + 1, token |-> SubSeq(data, 1, i + 1), hasToken |-> TRUE]
          ELSE IF atEOF
               THEN [advance |-> Len(data), token |-> data, hasToken |-> TRUE]
               ELSE [advance |-> 0, token |-> <<>>, hasToken |-> FALSE]

\* bufio.NewScanner(r): nothing buffered, nothing read, no error
\* r is the TeeReaderCloser the scanner reads through (NoTeeReaderCloser when
\* it reads the source itself) and sink that tee's writer
NewScanner == [buf |-> <<>>, pos |-> 0, err |-> NoErr, token |-> <<>>,
               r |-> NoTeeReaderCloser, sink |-> NewBuffer]

\* bufio.NewScanner(t) for a TeeReaderCloser t that writes to w
NewScannerOver(t, w) == [NewScanner EXCEPT !.r = t, !.sink = w]

\* s.end += n; if err != nil { s.setErr(err) } for the result t of a Read
AfterSourceRead(s, t) ==
  [s EXCEPT !.buf = @ \o t.data, !.pos = t.reader.pos, !.sink = t.writer,
            !.err = t.err]

\* one read of the upstream source into the scanner's buffer
SourceRead(s, src, end, k) ==
  LET n == Min(k, Len(src) - s.pos)
  IN IF ~s.r.isNil
     THEN AfterSourceRead(s, TeeReaderCloserRead(s.r, [pos |-> s.pos], s.sink,
                                                 k, src, end, k))
     ELSE IF n > 0
     THEN [s EXCEPT !.buf = @ \o SubSeq(src, s.pos + 1, s.pos + n), !.pos = @ + n]
     ELSE [s EXCEPT !.err = end]

RECURSIVE Scan(_, _, _, _)
Scan(s, src, end, k) ==
  LET try == Len(s.buf) > 0 \/ s.err # NoErr
      r == split(s.buf, s.err # NoErr)
      s1 == IF try
            THEN [s EXCEPT !.buf = SubSeq(s.buf, r.advance + 1, Len(s.buf)),
                           !.token = r.token]
            ELSE s
  IN IF try /\ r.hasToken THEN [ok |-> TRUE, s |-> s1]
     ELSE IF s1.err # NoErr THEN [ok |-> FALSE, s |-> [s1 EXCEPT !.buf = <<>>]]
     ELSE Scan(SourceRead(s1, src, end, k), src, end, k)

\* an Err() that reports io.EOF like any other error
ScannerErrKeepsEOF(s) == s.err

ScannerErr(s) == IF s.err = EOF THEN NoErr ELSE s.err

\* ---------------------------------------------------------- bytes.Buffer
\* a Read that empties the buffer whatever it copied
BufferReadDropsRest(buf, pLen) ==
  IF Len(buf) = 0
  THEN [n |-> 0, err |-> IF pLen = 0 THEN NoErr ELSE EOF, data |-> <<>>, rest |-> <<>>]
  ELSE LET n == Min(pLen, Len(buf))
       IN [n |-> n, err |-> NoErr, data |-> SubSeq(buf, 1, n), rest |-> <<>>]

\* a Read that reports io.EOF together with the buffer's last bytes
BufferReadEOFWhenDrained(buf, pLen) ==
  IF Len(buf) = 0
  THEN [n |-> 0, err |-> IF pLen = 0 THEN NoErr ELSE EOF, data |-> <<>>, rest |-> <<>>]
  ELSE LET n == Min(pLen, Len(buf))
       IN [n |-> n, err |-> IF n = Len(buf) THEN EOF ELSE NoErr,
           data |-> SubSeq(buf, 1, n), rest |-> SubSeq(buf, n + 1, Len(buf))]

BufferRead(buf, pLen) ==
  IF Len(buf) = 0
  THEN [n |-> 0, err |-> IF pLen = 0 THEN NoErr ELSE EOF, data |-> <<>>, rest |-> <<>>]
  ELSE LET n == Min(pLen, Len(buf))
       IN [n |-> n, err |-> NoErr, data |-> SubSeq(buf, 1, n),
           rest |-> SubSeq(buf, n + 1, Len(buf))]

\* ---------------------------------------------------------- StreamReader
NilStream == [isNil |-> TRUE, scanner |-> NewScanner, filter |-> "nil",
              buffer |-> <<>>, existsData |-> FALSE]

\* NewStreamReader without the check of r
NewStreamReaderNoNilCheck(r, f) ==
  [isNil |-> FALSE, scanner |-> NewScanner,
   filter |-> IF f = "nil" THEN "NopFilter" ELSE f,
   buffer |-> <<>>, existsData |-> TRUE]

\* NewStreamReader without the default for f
NewStreamReaderKeepsNilFilter(r, f) ==
  IF r = "nil" THEN NilStream
  ELSE [isNil |-> FALSE, scanner |-> NewScanner, filter |-> f,
        buffer |-> <<>>, existsData |-> TRUE]

NewStreamReaderValue(r, f) ==
  IF r = "nil" THEN NilStream
  ELSE [isNil |-> FALSE, scanner |-> NewScanner,
        filter |-> IF f = "nil" THEN "NopFilter" ELSE f,
        buffer |-> <<>>, existsData |-> TRUE]

\* for sr.existsData && bufErr == nil; st = [sr, bufErr, fed]
LoopCond(st) == st.sr.existsData /\ st.bufErr = NoErr

\* a loop that returns to the caller after every record, dropped or not
BreakAlways(fr) == TRUE

\* a loop that goes on after writing a record and stops only for an error
BreakOnErrorOnly(fr) == fr.err # NoErr

\* the loop's breaks after a filter call: on an error, and on non-empty output
BreakAfterFilter(fr) == fr.err # NoErr \/ fr.out # <<>>

\* sr.buffer.Write([]byte(lineStr))
BufferWrite(buf, lineStr) == buf \o lineStr

\* a loop body that queues the record instead of the filter's output
FilterLineWritesRecord(st, line) ==
  LET fr == CallFilter(st.sr.filter, line)
      st1 == [st EXCEPT !.fed = Append(@, line)]
  IN IF fr.err # NoErr THEN [st1 EXCEPT !.bufErr = fr.err]
     ELSE IF fr.out # <<>> THEN [st1 EXCEPT !.sr.buffer = BufferWrite(@, line)]
     ELSE st1

\* a loop body that passes the record to the filter a second time
FilterLineTwice(st, line) ==
  LET fr == CallFilter(st.sr.filter, line)
      st1 == [st EXCEPT !.fed = Append(Append(@, line), line)]
  IN IF fr.err # NoErr THEN [st1 EXCEPT !.bufErr = fr.err]
     ELSE IF fr.out # <<>> THEN [st1 EXCEPT !.sr.buffer = BufferWrite(@, fr.out)]
     ELSE st1

\* the body of the loop after a successful Scan
FilterLine(st, line) ==
  LET fr == CallFilter(st.sr.filter, line)
      st1 == [st EXCEPT !.fed = Append(@, line)]
  IN IF fr.err # NoErr THEN [st1 EXCEPT !.bufErr = fr.err]
     ELSE IF fr.out # <<>> THEN [st1 EXCEPT !.sr.buffer = BufferWrite(@, fr.out)]
     ELSE st1

RECURSIVE PullLoop(_, _, _, _)
PullLoop(st, src, end, k) ==
  IF ~LoopCond(st) THEN st
  ELSE LET sc == Scan(st.sr.scanner, src, end, k)
       IN IF ~sc.ok
          THEN [st EXCEPT !.sr.scanner = sc.s, !.sr.existsData = FALSE]
          ELSE LET line == sc.s.token
                   st1 == FilterLine([st EXCEPT !.sr.scanner = sc.s], line)
               IN IF BreakAfterFilter(CallFilter(st.sr.filter, line))
                  THEN st1
                  ELSE PullLoop(st1, src, end, k)

\* bufErr = sr.scanner.Err() without the guard
FinalErrUnguarded(st) == ScannerErr(st.sr.scanner)

\* if !sr.existsData && bufErr == nil { bufErr = sr.scanner.Err() }
FinalErr(st) ==
  IF ~st.sr.existsData /\ st.bufErr = NoErr
  THEN ScannerErr(st.sr.scanner) ELSE st.bufErr

\* a return that reads the buffer first and hands out bytes with the error
ReturnBytesWithError(st, bufErr, pLen) ==
  LET br == BufferRead(st.sr.buffer, pLen)
  IN [sr |-> [st.sr EXCEPT !.buffer = br.rest], fed |-> st.fed,
      n |-> br.n, err |-> IF bufErr = NoErr THEN br.err ELSE bufErr,
      data |-> br.data]

\* a return that reports the scanner's error once and then forgets it
ReturnErrorOnce(st, bufErr, pLen) ==
  LET br == BufferRead(st.sr.buffer, pLen)
  IN IF bufErr = NoErr
     THEN [sr |-> [st.sr EXCEPT !.buffer = br.rest], fed |-> st.fed,
           n |-> br.n, err |-> br.err, data |-> br.data]
     ELSE [sr |-> [st.sr EXCEPT !.scanner.err = EOF], fed |-> st.fed,
           n |-> 0, err |-> bufErr, data |-> <<>>]

\* if bufErr == nil { return sr.buffer.Read(p) }; return 0, bufErr
Return(st, bufErr, pLen) ==
  LET br == BufferRead(st.sr.buffer, pLen)
  IN IF bufErr = NoErr
     THEN [sr |-> [st.sr EXCEPT !.buffer = br.rest], fed |-> st.fed,
           n |-> br.n, err |-> br.err, data |-> br.data]
     ELSE [sr |-> st.sr, fed |-> st.fed, n |-> 0, err |-> bufErr, data |-> <<>>]

\* StreamReader.Read(p) with len(p) = pLen; s is the receiver, f the filter log
ReadValue(s, f, pLen, src, end, k) ==
  IF s.isNil
  THEN [sr |-> s, fed |-> f, n |-> 0, err |-> ErrNilReader, data |-> <<>>]
  ELSE LET st == PullLoop([sr |-> s, bufErr |-> NoErr, fed |-> f], src, end, k)
       IN Return(st, FinalErr(st), pLen)

\* a second stream over the same source, built with NopFilter and read with
\* the same destination sizes
NewTwin(r) ==
  [sr |-> NewStreamReaderValue(r, "NopFilter"), fed |-> <<>>, out |-> <<>>,
   lastN |-> 0, lastErr |-> NoErr]

ReadTwin(t, pLen, src, end, k) ==
  LET r == ReadValue(t.sr, t.fed, pLen, src, end, k)
  IN [sr |-> r.sr, fed |-> r.fed, out |-> t.out \o r.data,
      lastN |-> r.n, lastErr |-> r.err]

\* reading with one large destination per Read until Read returns an error
RECURSIVE ReadAllBig(_, _, _, _, _, _)
ReadAllBig(s, f, o, src, end, k) ==
  LET r == ReadValue(s, f, BigBuf, src, end, k)
  IN IF r.err # NoErr THEN [out |-> o \o r.data, err |-> r.err]
     ELSE ReadAllBig(r.sr, r.fed, o \o r.data, src, end, k)

\* ------------------------------------------------------------- ReadCloser
NoReadCloser == [isNil |-> TRUE, Reader |-> "nil", Closer |-> "nil"]

\* NewReadCloser(r, c): &ReadCloser{Reader: r, Closer: c}
NewReadCloserValue(r, c) == [isNil |-> FALSE, Reader |-> r, Closer |-> c]

\* a Close that treats a nil Closer as nothing to close
ReadCloserCloseNilIsNoop(v, c) ==
  IF v.isNil THEN [closer |-> c, err |-> NilDeref, panic |-> TRUE]
  ELSE IF v.Closer = "nil" THEN [closer |-> c, err |-> NoErr, panic |-> FALSE]
  ELSE LET m == MockClose(c)
       IN [closer |-> m.closer, err |-> m.err, panic |-> FALSE]

\* a Close that calls c.Close and reports success whatever it returned
ReadCloserCloseDropsError(v, c) ==
  IF v.isNil \/ v.Closer = "nil"
  THEN [closer |-> c, err |-> NilDeref, panic |-> TRUE]
  ELSE [closer |-> MockClose(c).closer, err |-> NoErr, panic |-> FALSE]

\* rc.Close(): the embedded io.Closer's Close; a nil interface panics
ReadCloserClose(v, c) ==
  IF v.isNil \/ v.Closer = "nil"
  THEN [closer |-> c, err |-> NilDeref, panic |-> TRUE]
  ELSE LET m == MockClose(c)
       IN [closer |-> m.closer, err |-> m.err, panic |-> FALSE]

\* rc.Read(p): the embedded io.Reader's Read; a nil interface panics.
\* s and f are the StreamReader and its filter log when Reader is the stream
StreamResult(r, rd) ==
  [reader |-> rd, sr |-> r.sr, fed |-> r.fed, n |-> r.n, err |-> r.err,
   data |-> r.data, panic |-> FALSE]

ReadCloserRead(v, rd, s, f, pLen, src, end, k) ==
  IF v.isNil \/ v.Reader = "nil"
  THEN [reader |-> rd, sr |-> s, fed |-> f, n |-> 0, err |-> NilDeref,
        data |-> <<>>, panic |-> TRUE]
  ELSE IF v.Reader = "stream"
  THEN StreamResult(ReadValue(s, f, pLen, src, end, k), rd)
  ELSE LET m == MockRead(rd, pLen, src, end, k)
       IN [reader |-> m.reader, sr |-> s, fed |-> f, n |-> m.n, err |-> m.err,
           data |-> m.data, panic |-> FALSE]

\* a constructor that forgets to pass r as the closer
NewJSONFilterReadCloserNoCloser(r) ==
  [sr |-> NewStreamReaderValue(r, "JSON"),
   rc |-> NewReadCloserValue("stream", "nil")]

\* a constructor that returns nil for a nil r
NewJSONFilterReadCloserNilForNil(r) ==
  IF r = "nil" THEN [sr |-> NilStream, rc |-> NoReadCloser]
  ELSE [sr |-> NewStreamReaderValue(r, "JSON"),
        rc |-> NewReadCloserValue("stream", "mock")]

\* NewJSONFilterReadCloser(r): NewReadCloser(NewStreamReader(r, filter), r)
NewJSONFilterReadCloserValue(r) ==
  [sr |-> NewStreamReaderValue(r, "JSON"),
   rc |-> NewReadCloserValue("stream", IF r = "nil" THEN "nil" ELSE "mock")]

NoFirst == [err |-> NoErr, out |-> <<>>, fed |-> 0, later |-> 0]

\* --------------------------------------------------------------- actions
Init ==
  /\ input \in Inputs
  /\ srcEnd \in {EOF, SrcErr}
  /\ chunk \in ChunkSizes
  /\ rArg \in {"nil", "reader"}
  /\ fArg \in Filters \cup {"nil"}
  /\ pc = "new"
  /\ sr = NilStream
  /\ out = <<>>
  /\ fed = <<>>
  /\ lastLen = -1
  /\ lastN = 0
  /\ lastErr = NoErr
  /\ lastFed = 0
  /\ first = NoFirst
  /\ twin = NewTwin("nil")
  /\ cArg = "nil"
  /\ reader = NewMockReader
  /\ closer = NewMockCloser(NoErr)
  /\ writer = NewBuffer
  /\ rc = NoReadCloser
  /\ trc = NoTeeReaderCloser
  /\ closeCalls = 0
  /\ lastClose = NoErr

NewStreamReader ==
  /\ pc = "new"
  /\ pc' = "ready"
  /\ sr' = NewStreamReaderValue(rArg, fArg)
  /\ twin' = IF fArg = "nil" THEN NewTwin(rArg) ELSE twin
  /\ UNCHANGED <<input, srcEnd, chunk, rArg, fArg, out, fed, lastLen, lastN,
                 lastErr, lastFed, first>>
  /\ UNCHANGED wrapVars

Read(pLen) ==
  /\ pc = "ready"
  /\ LET r == ReadValue(sr, fed, pLen, input, srcEnd, chunk)
     IN /\ sr' = r.sr
        /\ fed' = r.fed
        /\ out' = out \o r.data
        /\ lastLen' = pLen
        /\ lastN' = r.n
        /\ lastErr' = r.err
        /\ lastFed' = Len(r.fed) - Len(fed)
        /\ first' = IF first.err = NoErr /\ r.err # NoErr
                    THEN [err |-> r.err, out |-> out \o r.data, fed |-> Len(r.fed),
                          later |-> 0]
                    ELSE IF first.err # NoErr
                    THEN [first EXCEPT !.later = Min(@ + 1, MaxLater)]
                    ELSE first
        /\ pc' = IF r.err = NilFuncPanic THEN "panicked" ELSE pc
  /\ twin' = IF fArg = "nil" THEN ReadTwin(twin, pLen, input, srcEnd, chunk) ELSE twin
  /\ UNCHANGED <<input, srcEnd, chunk, rArg, fArg>>
  /\ UNCHANGED wrapVars

Next ==
  \/ NewStreamReader
  \/ \E pLen \in DestSizes : Read(pLen)

Spec == Init /\ [][Next]_vars

\* ------------------------------------------------ ReadCloser's operations
InitRC ==
  /\ input \in Inputs
  /\ srcEnd \in {EOF, SrcErr}
  /\ chunk \in ChunkSizes
  /\ rArg \in {"nil", "reader"}
  /\ cArg \in {"nil", "closer"}
  /\ closer \in {NewMockCloser(NoErr), NewMockCloser(CloseErr)}
  /\ fArg = "nil"
  /\ pc = "new"
  /\ sr = NilStream
  /\ out = <<>>
  /\ fed = <<>>
  /\ lastLen = -1
  /\ lastN = 0
  /\ lastErr = NoErr
  /\ lastFed = 0
  /\ first = NoFirst
  /\ twin = NewTwin("nil")
  /\ reader = NewMockReader
  /\ writer = NewBuffer
  /\ rc = NoReadCloser
  /\ trc = NoTeeReaderCloser
  /\ closeCalls = 0
  /\ lastClose = NoErr

NewReadCloser ==
  /\ pc = "new"
  /\ pc' = "ready"
  /\ rc' = NewReadCloserValue(IF rArg = "nil" THEN "nil" ELSE "mock",
                              IF cArg = "nil" THEN "nil" ELSE "mock")
  /\ UNCHANGED <<input, srcEnd, chunk, rArg, fArg, sr, out, fed, lastLen, lastN,
                 lastErr, lastFed, first, twin>>
  /\ UNCHANGED <<cArg, reader, closer, writer, trc, closeCalls, lastClose>>

\* rc.Read(p); a panic is recovered by the caller, as the tests do
RCRead(pLen) ==
  /\ pc = "ready"
  /\ LET r == ReadCloserRead(rc, reader, sr, fed, pLen, input, srcEnd, chunk)
     IN /\ reader' = r.reader
        /\ sr' = r.sr
        /\ fed' = r.fed
        /\ out' = out \o r.data
        /\ lastLen' = pLen
        /\ lastN' = r.n
        /\ lastErr' = r.err
        /\ lastFed' = Len(r.fed) - Len(fed)
        /\ first' = IF first.err = NoErr /\ r.err # NoErr
                    THEN [err |-> r.err, out |-> out \o r.data, fed |-> Len(r.fed),
                          later |-> 0]
                    ELSE IF first.err # NoErr
                    THEN [first EXCEPT !.later = Min(@ + 1, MaxLater)]
                    ELSE first
  /\ UNCHANGED <<input, srcEnd, chunk, rArg, fArg, pc, twin>>
  /\ UNCHANGED <<cArg, closer, writer, rc, trc, closeCalls, lastClose>>

\* rc.Close()
RCClose ==
  /\ pc = "ready"
  /\ closeCalls < MaxCloses
  /\ LET r == ReadCloserClose(rc, closer)
     IN /\ closer' = r.closer
        /\ lastClose' = r.err
  /\ closeCalls' = closeCalls + 1
  /\ UNCHANGED streamVars
  /\ UNCHANGED <<cArg, reader, writer, rc, trc>>

NextRC ==
  \/ NewReadCloser
  \/ \E pLen \in DestSizes : RCRead(pLen)
  \/ RCClose

SpecRC == InitRC /\ [][NextRC]_vars

\* ------------------------------------ NewJSONFilterReadCloser's object
InitJSON ==
  /\ input \in JSONInputs
  /\ srcEnd \in {EOF, SrcErr}
  /\ chunk = MaxChunk
  /\ closer \in {NewMockCloser(NoErr), NewMockCloser(CloseErr)}
  /\ rArg \in {"nil", "reader"}
  /\ cArg = "closer"
  /\ fArg = "JSON"
  /\ pc = "new"
  /\ sr = NilStream
  /\ out = <<>>
  /\ fed = <<>>
  /\ lastLen = -1
  /\ lastN = 0
  /\ lastErr = NoErr
  /\ lastFed = 0
  /\ first = NoFirst
  /\ twin = NewTwin("nil")
  /\ reader = NewMockReader
  /\ writer = NewBuffer
  /\ rc = NoReadCloser
  /\ trc = NoTeeReaderCloser
  /\ closeCalls = 0
  /\ lastClose = NoErr

NewJSONFilterReadCloser ==
  /\ pc = "new"
  /\ pc' = "ready"
  /\ LET v == NewJSONFilterReadCloserValue(rArg)
     IN /\ sr' = v.sr
        /\ rc' = v.rc
  /\ UNCHANGED <<input, srcEnd, chunk, rArg, fArg, out, fed, lastLen, lastN,
                 lastErr, lastFed, first, twin>>
  /\ UNCHANGED <<cArg, reader, closer, writer, trc, closeCalls, lastClose>>

NextJSON ==
  \/ NewJSONFilterReadCloser
  \/ \E pLen \in DestSizes : RCRead(pLen)
  \/ RCClose

SpecJSON == InitJSON /\ [][NextJSON]_vars

\* ------------------------------------------- TeeReaderCloser's operations
InitTee ==
  /\ input \in Inputs
  /\ srcEnd \in {EOF, SrcErr}
  /\ chunk \in ChunkSizes
  /\ closer \in {NewMockCloser(NoErr), NewMockCloser(CloseErr)}
  /\ writer \in {NewBuffer} \cup {NewLimitedWriter(n) : n \in SinkRooms}
  /\ rArg = "reader"
  /\ cArg = "closer"
  /\ fArg = "nil"
  /\ pc = "new"
  /\ sr = NilStream
  /\ out = <<>>
  /\ fed = <<>>
  /\ lastLen = -1
  /\ lastN = 0
  /\ lastErr = NoErr
  /\ lastFed = 0
  /\ first = NoFirst
  /\ twin = NewTwin("nil")
  /\ reader = NewMockReader
  /\ rc = NoReadCloser
  /\ trc = NoTeeReaderCloser
  /\ closeCalls = 0
  /\ lastClose = NoErr

NewTeeReaderCloser ==
  /\ pc = "new"
  /\ pc' = "ready"
  /\ trc' = NewTeeReaderCloserValue("mock", "writer")
  /\ UNCHANGED <<input, srcEnd, chunk, rArg, fArg, sr, out, fed, lastLen, lastN,
                 lastErr, lastFed, first, twin>>
  /\ UNCHANGED <<cArg, reader, closer, writer, rc, closeCalls, lastClose>>

TeeRead(pLen) ==
  /\ pc = "ready"
  /\ LET r == TeeReaderCloserRead(trc, reader, writer, pLen, input, srcEnd, chunk)
     IN /\ reader' = r.reader
        /\ writer' = r.writer
        /\ out' = out \o r.data
        /\ lastLen' = pLen
        /\ lastN' = r.n
        /\ lastErr' = r.err
  /\ UNCHANGED <<input, srcEnd, chunk, rArg, fArg, pc, sr, fed, lastFed, first, twin>>
  /\ UNCHANGED <<cArg, closer, rc, trc, closeCalls, lastClose>>

TeeClose ==
  /\ pc = "ready"
  /\ closeCalls < MaxCloses
  /\ LET r == TeeReaderCloserClose(trc, closer, writer)
     IN /\ closer' = r.closer
        /\ writer' = r.writer
        /\ lastClose' = r.err
  /\ closeCalls' = closeCalls + 1
  /\ UNCHANGED streamVars
  /\ UNCHANGED <<cArg, reader, rc, trc>>

NextTee ==
  \/ NewTeeReaderCloser
  \/ \E pLen \in DestSizes : TeeRead(pLen)
  \/ TeeClose

SpecTee == InitTee /\ [][NextTee]_vars

\* ------------------------------------------------------ chained readers
\* a source, a sink and a filter before NewTeeReaderCloser and NewStreamReader
InitChain ==
  /\ input \in Inputs
  /\ srcEnd \in {EOF, SrcErr}
  /\ chunk \in ChunkSizes
  /\ writer \in {NewBuffer} \cup {NewLimitedWriter(n) : n \in SinkRooms}
  /\ fArg \in {f \in Filters : NeverErrs(f)}
  /\ closer = NewMockCloser(NoErr)
  /\ rArg = "reader"
  /\ cArg = "closer"
  /\ pc = "new"
  /\ sr = NilStream
  /\ out = <<>>
  /\ fed = <<>>
  /\ lastLen = -1
  /\ lastN = 0
  /\ lastErr = NoErr
  /\ lastFed = 0
  /\ first = NoFirst
  /\ twin = NewTwin("nil")
  /\ reader = NewMockReader
  /\ rc = NoReadCloser
  /\ trc = NoTeeReaderCloser
  /\ closeCalls = 0
  /\ lastClose = NoErr

\* teeReader := NewTeeReaderCloser(source, &monitor);
\* errorReader := NewStreamReader(teeReader, filter)
NewChainedReaders ==
  /\ pc = "new"
  /\ pc' = "ready"
  /\ trc' = NewTeeReaderCloserValue("mock", "writer")
  /\ sr' = [NewStreamReaderValue(rArg, fArg)
              EXCEPT !.scanner = NewScannerOver(trc', writer)]
  /\ UNCHANGED <<input, srcEnd, chunk, rArg, fArg, out, fed, lastLen, lastN,
                 lastErr, lastFed, first, twin>>
  /\ UNCHANGED <<cArg, reader, closer, writer, rc, closeCalls, lastClose>>

\* errorReader.Read(p): the scanner's reads of the tee move the source and
\* fill the sink
ChainedRead(pLen) ==
  /\ pc = "ready"
  /\ LET r == ReadValue(sr, fed, pLen, input, srcEnd, chunk)
     IN /\ sr' = r.sr
        /\ fed' = r.fed
        /\ out' = out \o r.data
        /\ lastLen' = pLen
        /\ lastN' = r.n
        /\ lastErr' = r.err
        /\ lastFed' = Len(r.fed) - Len(fed)
  /\ reader' = [pos |-> sr'.scanner.pos]
  /\ writer' = sr'.scanner.sink
  /\ UNCHANGED <<input, srcEnd, chunk, rArg, fArg, pc, first, twin>>
  /\ UNCHANGED <<cArg, closer, rc, trc, closeCalls, lastClose>>

NextChain ==
  \/ NewChainedReaders
  \/ \E pLen \in DestSizes : ChainedRead(pLen)

SpecChain == InitChain /\ [][NextChain]_vars

\* ------------------------------------------------- expected behaviour
\* the records of a byte sequence: each ends right after a newline, the
\* unterminated rest is the last one
RECURSIVE RecordsOf(_)
RecordsOf(s) ==
  IF s = <<>> THEN <<>>
  ELSE LET i == IndexByte(s, NL)
       IN IF i < 0 THEN <<s>>
          ELSE <<SubSeq(s, 1, i + 1)>> \o RecordsOf(SubSeq(s, i + 2, Len(s)))

\* the filter outputs of the records recs, concatenated in order
RECURSIVE FilteredOutput(_, _)
FilteredOutput(f, recs) ==
  IF recs = <<>> THEN <<>>
  ELSE CallFilter(f, Head(recs)).out \o FilteredOutput(f, Tail(recs))

\* the records recs laid end to end
RECURSIVE Flatten(_)
Flatten(recs) ==
  IF recs = <<>> THEN <<>> ELSE Head(recs) \o Flatten(Tail(recs))

IsSuffix(t, s) ==
  Len(t) <= Len(s) /\ t = SubSeq(s, Len(s) - Len(t) + 1, Len(s))

Last(s) == s[Len(s)]

\* ---------------------------------------------------------------- claims

\* C1: with NopFilter, once Read has returned end-of-stream the bytes returned
\* so far are the source's bytes, none added, none removed, whatever the
\* destination sizes of the Read calls were.
C1_IdentityRoundTrip ==
  (fArg = "NopFilter" /\ rArg = "reader" /\ lastErr = EOF) => out = input

\* an input of two records, the last one unterminated, read to end-of-stream
C1_Witness ==
  /\ fArg = "NopFilter" /\ rArg = "reader" /\ lastErr = EOF
  /\ Len(input) = MaxInputLen /\ Contains(input, NL) /\ Last(input) # NL
  /\ out = input

\* C2: for a filter that never errors, at end-of-stream the bytes returned are
\* the filter outputs of the source's records concatenated in source order;
\* a record with empty filter output contributes nothing.
C2_FilteredConcatenation ==
  (pc = "ready" /\ ~sr.isNil /\ NeverErrs(sr.filter) /\ lastErr = EOF)
    => out = FilteredOutput(sr.filter, RecordsOf(input))

\* a run to end-of-stream in which one record was dropped and another was
\* replaced by the filter's output
C2_Witness ==
  /\ pc = "ready" /\ ~sr.isNil /\ sr.filter = "SkipUpper" /\ lastErr = EOF
  /\ Len(fed) >= 2
  /\ \E i \in 1..Len(fed) : Contains(fed[i], LowerB)
  /\ Contains(out, UpperA)

\* C3: the Read call that passed a record to the filter and got an error
\* returns zero bytes and that record's filter error, not end-of-stream and
\* not a source error, also when the record is the source's last one.
C3_FilterErrorReturned ==
  (pc = "ready" /\ lastFed > 0 /\ CallFilter(sr.filter, Last(fed)).err # NoErr)
    => (lastN = 0 /\ lastErr = CallFilter(sr.filter, Last(fed)).err)

\* the filter failed on the last record of a source that itself ends in error
C3_Witness ==
  /\ pc = "ready" /\ lastFed > 0 /\ lastErr.kind = "filter"
  /\ lastErr.rec = Last(fed)
  /\ fed = RecordsOf(input) /\ Len(fed) >= 2
  /\ srcEnd = SrcErr

\* C4 (as claimed): when the first filter error is returned for record K,
\* the Read calls before it have returned all the filter outputs of the
\* records 1..K-1.
C4_AllEarlierBytesBeforeFilterError ==
  (pc = "ready" /\ first.err.kind = "filter")
    => first.out = FilteredOutput(sr.filter, SubSeq(fed, 1, first.fed - 1))

\* C5 (as claimed): after Read has returned a filter error, no later Read
\* passes another record to the filter.
C5_FilterErrorTerminal ==
  (pc = "ready" /\ first.err.kind = "filter") => Len(fed) = first.fed

\* C6 (as claimed): whatever the destination sizes, the first error Read
\* returns and the bytes returned up to it are those of reading the same source
\* through the same filter with one large destination per Read.
C6_SameAsLargeReads ==
  (pc = "ready" /\ ~sr.isNil /\ first.err # NoErr)
    => LET big == ReadAllBig(NewStreamReaderValue(rArg, fArg), <<>>, <<>>,
                             input, srcEnd, chunk)
       IN first.err = big.err /\ first.out = big.out

\* C7: NewStreamReader with a nil source returns the nil stream, and every
\* Read on it returns zero bytes and ErrNilReader.
C7_NilSource ==
  (rArg = "nil" /\ pc # "new")
    => /\ sr.isNil
       /\ out = <<>>
       /\ lastLen >= 0 => (lastN = 0 /\ lastErr = ErrNilReader)

\* a Read with a non-empty destination on the nil stream
C7_Witness ==
  rArg = "nil" /\ pc = "ready" /\ lastLen > 0 /\ lastErr = ErrNilReader

\* C8: a stream built with a nil filter returns at every Read the same count,
\* bytes and error as a stream built with NopFilter over the same source and
\* read with the same destination sizes.
C8_NilFilterIsNopFilter ==
  (fArg = "nil" /\ pc # "new")
    => /\ twin.sr.isNil = sr.isNil
       /\ twin.lastN = lastN
       /\ twin.lastErr = lastErr
       /\ twin.out = out

\* a nil-filter stream read to end-of-stream over several records
C8_Witness ==
  /\ fArg = "nil" /\ rArg = "reader" /\ lastErr = EOF
  /\ Len(fed) >= 2 /\ out = input /\ twin.out = out

\* C9: with a filter that returns empty output for every record and a source
\* that ends without error, no Read returns bytes, and a Read with a non-empty
\* destination returns end-of-stream after every record went to the filter.
C9_DropAllCleanEOF ==
  (pc = "ready" /\ ~sr.isNil /\ sr.filter = "DropAll" /\ srcEnd = EOF)
    => /\ out = <<>>
       /\ lastN = 0
       /\ lastLen > 0 => (lastErr = EOF /\ fed = RecordsOf(input))

\* every one of several records was dropped and Read reported end-of-stream
C9_Witness ==
  /\ pc = "ready" /\ ~sr.isNil /\ sr.filter = "DropAll" /\ srcEnd = EOF
  /\ lastErr = EOF /\ Len(fed) >= 2 /\ fed = RecordsOf(input)

\* C10 (as claimed): when Read returns the source's error, every byte that
\* was placed in the carry-over buffer has been delivered.
C10_SourceErrorAfterBufferDrained ==
  (pc = "ready" /\ lastErr = SrcErr) => sr.buffer = <<>>

\* C11: the records passed to the filter are consecutive pieces of the source
\* bytes, all of them once the scanner is exhausted; none is empty; a newline
\* occurs in a record only as its last byte; a record without newline is the
\* last one and ends the input.
C11_RecordSegmentation ==
  (pc = "ready" /\ ~sr.isNil)
    => /\ Len(Flatten(fed)) <= Len(input)
       /\ Flatten(fed) = SubSeq(input, 1, Len(Flatten(fed)))
       /\ ~sr.existsData => Flatten(fed) = input
       /\ \A i \in 1..Len(fed) :
            /\ fed[i] # <<>>
            /\ \A j \in 1..(Len(fed[i]) - 1) : fed[i][j] # NL
            /\ Last(fed[i]) # NL => (i = Len(fed) /\ Flatten(fed) = input)

\* an exhausted source of three records, an empty line among them, whose
\* last record has no newline
C11_Witness ==
  /\ pc = "ready" /\ ~sr.isNil /\ ~sr.existsData
  /\ Len(fed) = 3 /\ Last(input) # NL
  /\ \E i \in 1..Len(fed) : fed[i] = <<NL>>

\* an exhausted source that ends in a newline: no record follows it
C11_WitnessTrailingNewline ==
  /\ pc = "ready" /\ ~sr.isNil /\ ~sr.existsData
  /\ Len(input) = MaxInputLen /\ Last(input) = NL /\ Len(fed) = 2

\* C18 (as claimed): between Read calls the carry-over buffer is empty or
\* holds the not yet delivered tail of the filter output of one record.
C18_CarryOverSingleRecord ==
  (pc = "ready" /\ ~sr.isNil)
    => \/ sr.buffer = <<>>
       \/ \E i \in 1..Len(fed) : IsSuffix(sr.buffer, CallFilter(sr.filter, fed[i]).out)

\* C19: a Read with a non-empty destination returns at least one byte and a
\* nil error, or zero bytes and a non-nil error (end-of-stream, a filter error,
\* the source's error; ErrNilReader on the nil stream): never zero bytes with
\* a nil error and never bytes with an error.
C19_ResultShape ==
  (pc = "ready" /\ lastLen >= 1)
    => /\ \/ lastN >= 1 /\ lastErr = NoErr
          \/ lastN = 0 /\ lastErr # NoErr
       /\ lastN <= lastLen
       /\ lastErr.kind \in {"nil", "EOF", "filter", "source", "ErrNilReader"}

\* one Read dropped two records in a row and returned the bytes of the third
C19_Witness ==
  /\ pc = "ready" /\ ~sr.isNil /\ lastLen >= 1
  /\ lastFed = 3 /\ lastN >= 1 /\ lastErr = NoErr
  /\ CallFilter(sr.filter, fed[Len(fed) - 1]).out = <<>>
  /\ CallFilter(sr.filter, fed[Len(fed) - 2]).out = <<>>

\* C20: when a Read returns bytes, with full the carry-over buffer after this
\* call's pull (the buffer at entry plus the output of the record accepted in
\* this call), the count is min(len(p), len(full)), the bytes are the first
\* ones of full, and the buffer keeps exactly the rest of full.
C20_OldestBytesFirst ==
  [][(pc = "ready" /\ ~sr.isNil /\ lastN' >= 1)
       => LET full == sr.buffer \o
                      FilteredOutput(sr.filter, SubSeq(fed', Len(fed) + 1, Len(fed')))
          IN /\ lastN' = Min(lastLen', Len(full))
             /\ out' = out \o SubSeq(full, 1, lastN')
             /\ sr'.buffer = SubSeq(full, lastN' + 1, Len(full))]_vars

\* a Read filled its two-byte destination and left bytes of two records behind
C20_Witness ==
  /\ pc = "ready" /\ ~sr.isNil /\ lastLen = 2 /\ lastN = 2
  /\ Len(out) >= 3 /\ Len(sr.buffer) >= 1 /\ Len(fed) >= 2

\* C15: NewReadCloser returns an object also for a nil source or closer; on
\* it Close with a nil closer panics and Read with a nil source panics, while
\* the operation whose component is present works as on any ReadCloser.
C15_NilComponentsPanic ==
  (pc = "ready")
    => /\ ~rc.isNil
       /\ (cArg = "nil" /\ closeCalls > 0) => lastClose = NilDeref
       /\ (rArg = "nil" /\ lastLen >= 1) => (lastErr = NilDeref /\ lastN = 0)
       /\ rArg = "reader" => (lastErr # NilDeref /\ out = SubSeq(input, 1, reader.pos))
       /\ cArg = "closer" =>
            (closer.calls = closeCalls /\ (closeCalls > 0 => lastClose = closer.err))

\* with a nil closer, a Read returned bytes and then a Close panicked
C15_Witness ==
  /\ pc = "ready" /\ ~rc.isNil /\ rArg = "reader" /\ cArg = "nil"
  /\ Len(out) >= 2 /\ lastErr = NoErr
  /\ closeCalls > 0 /\ lastClose = NilDeref

\* with a nil source, a Close succeeded and then a Read panicked
C15_WitnessNilReader ==
  /\ pc = "ready" /\ rArg = "nil" /\ cArg = "closer"
  /\ closeCalls > 0 /\ closer.closed /\ lastLen >= 1 /\ lastErr = NilDeref

\* C16: on NewReadCloser(r, c) the Reads return r's bytes in order with r's
\* count and error; each Close calls c.Close once and returns its error; Read
\* leaves c alone and Close leaves r alone.
C16_ForwardsReadAndClose ==
  (pc = "ready" /\ rArg = "reader" /\ cArg = "closer")
    => /\ out = SubSeq(input, 1, reader.pos)
       /\ lastLen >= 1 =>
            \/ lastErr = NoErr /\ lastN >= 1 /\ lastN <= lastLen
            \/ lastErr = srcEnd /\ lastN = 0 /\ reader.pos = Len(input)
       /\ closer.calls = closeCalls
       /\ closer.closed = (closeCalls > 0)
       /\ closeCalls > 0 => lastClose = closer.err

\* r was read to its failing end and c.Close's error was returned twice
C16_Witness ==
  /\ pc = "ready" /\ rArg = "reader" /\ cArg = "closer"
  /\ out = input /\ Len(input) >= 3 /\ lastErr = SrcErr /\ srcEnd = SrcErr
  /\ closeCalls = 2 /\ closer.calls = 2 /\ lastClose = CloseErr

\* C13: after any sequence of TeeReaderCloser.Read calls the sink holds the
\* bytes those calls returned, in order; a Read that returns no bytes leaves
\* the sink as it was.
C13_SinkMirrorsReads ==
  (pc = "ready" /\ ~trc.isNil) => writer.buf = out

\* the source was read in several pieces up to end-of-data, which wrote nothing
C13_Witness ==
  /\ pc = "ready" /\ ~trc.isNil /\ writer.room < 0
  /\ lastErr = EOF /\ lastN = 0 /\ lastLen = 2
  /\ Len(input) >= 3 /\ out = input /\ writer.buf = input

\* C14: each TeeReaderCloser.Close calls the source's Close once and returns
\* its error as it is; it does not close the sink and does not write to it.
C14_CloseDelegatesToSource ==
  (pc = "ready" /\ ~trc.isNil)
    => /\ closer.calls = closeCalls
       /\ closer.closed = (closeCalls > 0)
       /\ closeCalls > 0 => lastClose = closer.err
       /\ ~writer.closed
       /\ writer.buf = out
       /\ Len(writer.buf) <= reader.pos
       /\ writer.buf = SubSeq(input, 1, Len(writer.buf))

\* after some bytes were teed, Close returned the source's close error
C14_Witness ==
  /\ pc = "ready" /\ ~trc.isNil
  /\ closeCalls = 1 /\ closer.calls = 1 /\ closer.closed
  /\ lastClose = CloseErr /\ Len(writer.buf) >= 2

\* C12: reading NewJSONFilterReadCloser's object never fails because of a
\* record that is not valid JSON, and at end-of-stream the bytes returned are
\* the source's valid-JSON records, unchanged and in source order.
C12_JSONLinesOnly ==
  (pc = "ready" /\ ~rc.isNil /\ ~sr.isNil)
    => /\ lastErr \in {NoErr, EOF, SrcErr}
       /\ srcEnd = EOF => lastErr \in {NoErr, EOF}
       /\ lastErr = EOF => out = Flatten(SelectSeq(RecordsOf(input), JSONValid))

\* a valid record, an invalid one and a valid one without newline, read to
\* end-of-stream
C12_Witness ==
  /\ pc = "ready" /\ ~rc.isNil /\ lastErr = EOF
  /\ Len(fed) = 3
  /\ JSONValid(fed[1]) /\ ~JSONValid(fed[2]) /\ JSONValid(fed[3])
  /\ out = fed[1] \o fed[3]

\* C17: Close on NewJSONFilterReadCloser's object calls Close of the source r
\* once and returns its error, and leaves the stream's state and output as
\* they were; nothing but Close closes r.
C17_CloseClosesSourceOnly ==
  [][(pc = "ready" /\ rArg = "reader")
       => IF closeCalls' # closeCalls
          THEN /\ closer'.calls = closer.calls + 1
               /\ closer'.closed
               /\ lastClose' = closer.err
               /\ sr' = sr /\ fed' = fed /\ out' = out
          ELSE closer' = closer]_vars

\* r was closed, with its error returned, while the stream still held
\* undelivered bytes
C17_Witness ==
  /\ pc = "ready" /\ ~rc.isNil /\ closeCalls = 1 /\ closer.calls = 1
  /\ lastClose = CloseErr /\ Len(out) >= 1 /\ sr.buffer # <<>>

\* C21: over any sequence of Read calls the records passed to the filter are
\* the source's first records, in source order, each passed once: none is
\* skipped and none is passed twice.
C21_FilterSeesRecordsInOrderOnce ==
  (pc = "ready" /\ ~sr.isNil)
    => /\ Len(fed) <= Len(RecordsOf(input))
       /\ fed = SubSeq(RecordsOf(input), 1, Len(fed))

\* reading went on after a filter error and after a dropped record, with
\* small destinations, until three records had been filtered
C21_Witness ==
  /\ pc = "ready" /\ ~sr.isNil /\ fArg = "Error"
  /\ first.err.kind = "filter" /\ first.fed < 3
  /\ Len(fed) = 3 /\ lastLen = 1 /\ Len(out) >= 2

\* C22: after a Read has returned io.EOF, the next Read (and so every later
\* one) returns 0 bytes and io.EOF again, reads nothing from the source and
\* does not call the filter.
C22_EOFTerminal ==
  [][(pc = "ready" /\ ~sr.isNil /\ lastErr = EOF)
       => /\ lastN' = 0 /\ lastErr' = EOF
          /\ out' = out
          /\ fed' = fed
          /\ sr'.scanner = sr.scanner]_vars

\* after the first io.EOF, which followed some output, further Reads were
\* made and the last of them returned io.EOF again
C22_Witness ==
  /\ pc = "ready" /\ ~sr.isNil
  /\ first.err = EOF /\ first.later = MaxLater
  /\ lastErr = EOF /\ lastN = 0 /\ Len(out) >= 2 /\ Len(fed) >= 2

\* C23: after a Read has returned the source's error, the next Read (and so
\* every later one) returns 0 bytes and that same error, and the filter is
\* not called again.
C23_SourceErrorTerminal ==
  [][(pc = "ready" /\ ~sr.isNil /\ lastErr = SrcErr)
       => /\ lastN' = 0 /\ lastErr' = SrcErr
          /\ out' = out
          /\ fed' = fed]_vars

\* the source failed after two records; the error was returned, and returned
\* again by later Reads, while bytes were still in the carry-over buffer
C23_Witness ==
  /\ pc = "ready" /\ ~sr.isNil /\ srcEnd = SrcErr
  /\ first.err = SrcErr /\ first.later = MaxLater
  /\ lastErr = SrcErr /\ lastN = 0 /\ Len(fed) >= 2 /\ sr.buffer # <<>>

\* C24: with a TeeReaderCloser between the source and a StreamReader that has
\* been read to io.EOF, the sink holds all the source's bytes in order, dropped
\* records included, and the stream's output is the filter's output for the
\* source's records.
C24_ChainedTeeSeesAll ==
  (pc = "ready" /\ ~sr.isNil /\ lastErr = EOF)
    => /\ writer.buf = input
       /\ out = FilteredOutput(sr.filter, RecordsOf(input))

\* read with 1-byte destinations to io.EOF, the stream dropped a record that
\* the sink holds
C24_Witness ==
  /\ pc = "ready" /\ ~sr.isNil /\ lastErr = EOF /\ lastLen = 1
  /\ fArg = "Drop" /\ Len(fed) = 3
  /\ writer.buf = input /\ out # <<>> /\ Len(out) < Len(input)

\* C25: when Read returns io.EOF, the source has ended without error, all of
\* its records have been taken from it and filtered, and the carry-over
\* buffer is empty: every byte put into it has been returned.
C25_NoPrematureEOF ==
  (pc = "ready" /\ ~sr.isNil /\ lastErr = EOF)
    => /\ srcEnd = EOF /\ sr.scanner.err = EOF
       /\ sr.scanner.pos = Len(input) /\ sr.scanner.buf = <<>>
       /\ ~sr.existsData
       /\ fed = RecordsOf(input)
       /\ sr.buffer = <<>>
       /\ out = FilteredOutput(sr.filter, fed)

\* the first io.EOF, after three records were read with 1-byte destinations
C25_Witness ==
  /\ pc = "ready" /\ ~sr.isNil /\ lastErr = EOF /\ lastLen = 1
  /\ first.err = EOF /\ first.later = 0
  /\ Len(fed) = 3 /\ Len(out) >= 3

\* C26: one Read appends the filter output of at most one record to the
\* carry-over buffer: of the records it passes to the filter, all but the last
\* give empty output, and what the call returns plus what it leaves buffered
\* is the old buffer followed by the last record's output.
C26_OneRecordPerRead ==
  [][(pc = "ready" /\ ~sr.isNil /\ pc' = "ready")
       => LET new == SubSeq(fed', Len(fed) + 1, Len(fed'))
              added == IF new = <<>> THEN <<>>
                       ELSE CallFilter(sr.filter, Last(new)).out
          IN /\ \A i \in 1..(Len(new) - 1) :
                  CallFilter(sr.filter, new[i]) = FilterResult(<<>>, NoErr)
             /\ SubSeq(out', Len(out) + 1, Len(out')) \o sr'.buffer
                  = sr.buffer \o added]_vars

\* a Read that dropped a record, accepted the next one and left part of it
\* in the buffer
C26_Witness ==
  /\ pc = "ready" /\ ~sr.isNil /\ fArg = "Drop"
  /\ lastFed = 2 /\ lastN = 1 /\ lastErr = NoErr
  /\ sr.buffer # <<>> /\ sr.buffer = SubSeq(Last(fed), 2, Len(Last(fed)))

\* C27: NewJSONFilterReadCloser(nil) returns an object; each Read on it
\* returns 0 bytes and ErrNilReader, never a panic and never io.EOF; each
\* Close on it panics, and nothing is closed.
C27_NilSourceJSON ==
  (pc = "ready" /\ rArg = "nil")
    => /\ ~rc.isNil
       /\ lastLen >= 1 => (lastN = 0 /\ lastErr = ErrNilReader)
       /\ out = <<>> /\ fed = <<>>
       /\ closeCalls > 0 => lastClose = NilDeref
       /\ closer.calls = 0 /\ ~closer.closed

\* after NewJSONFilterReadCloser(nil): several Reads, then a Close, then a
\* Read again
C27_Witness ==
  /\ pc = "ready" /\ rArg = "nil" /\ ~rc.isNil
  /\ first.err = ErrNilReader /\ first.later = MaxLater
  /\ lastErr = ErrNilReader /\ lastN = 0
  /\ closeCalls = MaxCloses /\ lastClose = NilDeref

====
